---- MODULE Spec2Model ----
(***************************************************************************)
(* Model of server.py: the /download handler (probe, primary fetch, audio  *)
(* presence check, companion audio fetch, merge/transcode, response and    *)
(* deferred cleanup) and the stream classification loop of /fetch_info.     *)
(* External tools (yt-dlp, ffprobe, ffmpeg) are black boxes whose outcomes  *)
(* are chosen nondeterministically.                                         *)
(***************************************************************************)
EXTENDS Integers, Sequences, FiniteSets

VARIABLES pc, format_id, formats, has_audio, video_fmt, workspace,
          primary_streams, video_path, audio_path, final_path, audio_src,
          probe, probe_result, audio_fetch, ffmpeg, tasks, response, sent,
          info_pc, in_formats, menu

vars == <<pc, format_id, formats, has_audio, video_fmt, workspace,
          primary_streams, video_path, audio_path, final_path, audio_src,
          probe, probe_result, audio_fetch, ffmpeg, tasks, response, sent,
          info_pc, in_formats, menu>>

dlvars == <<pc, format_id, formats, has_audio, video_fmt, workspace,
            primary_streams, video_path, audio_path, final_path, audio_src,
            probe, probe_result, audio_fetch, ffmpeg, tasks, response, sent>>

infovars == <<info_pc, in_formats, menu>>

\* ------------------------------------------------------------------ bounds
\* longest stream list returned by the probe of /download
MaxFormats == 2
\* longest stream list classified by /fetch_info
MaxDescriptors == 3

\* ------------------------------------------------------------- value sets
\* Python None for paths, identifiers and selectors
None == "None"

Range(s) == {s[i] : i \in DOMAIN s}

SeqsUpTo(S, n) == UNION {[1..k -> S] : k \in 0..n}

\* stream identifiers the extraction service may offer
FormatIds == {"f1", "f2"}

\* values of the optional format_id query parameter: absent, empty, or an id
RequestIds == FormatIds \cup {None, ""}

\* a descriptor of the probed stream list, reduced to the keys /download reads
Descriptors == {[format_id |-> i, vcodec |-> v, acodec |-> a] :
                  i \in FormatIds, v \in {"none", "h264"}, a \in {"none", "aac"}}
               \ {[format_id |-> i, vcodec |-> "none", acodec |-> "none"] : i \in FormatIds}

FormatLists == SeqsUpTo(Descriptors, MaxFormats)

\* codec types of the streams found in a downloaded container
StreamLists == {<<"video">>, <<"video", "audio">>, <<"audio">>, <<"video", "subtitle">>}

\* ------------------------------------------------------- helper functions
\* os.path / shutil on the per-request directory
NoWorkspace == [exists |-> FALSE, files |-> {}]

Mkdtemp == [exists |-> TRUE, files |-> {}]

Rmtree(ws) == [exists |-> FALSE, files |-> {}]

WriteFile(ws, name) == [ws EXCEPT !.files = @ \cup {name}]

\* remove_file_later: delete the file, then the parent only if it is empty
RemoveFileLater(ws, path) ==
    LET left == ws.files \ {path}
    IN  [exists |-> ws.exists /\ left # {}, files |-> left]

\* run_subprocess(capture=True): the tool's outcome and its standard output
\*   "ok"       exit status 0, stdout returned
\*   "nonzero"  CalledProcessError, re-raised as RuntimeError
\*   "nolaunch" FileNotFoundError from subprocess.run, propagates
\*   "ioerror"  any other exception while reading the output, propagates
ToolOutcomes == {"ok", "nonzero", "nolaunch", "ioerror"}

RunSubprocess(outcome, stdout) ==
    IF outcome = "ok" THEN [raised |-> FALSE, out |-> stdout]
                      ELSE [raised |-> TRUE, out |-> <<>>]

FfprobeFailsClosed(outcome, streams) ==
    LET r == RunSubprocess(outcome, streams)
    IN  IF r.raised THEN FALSE ELSE "audio" \in Range(r.out)

\* ffprobe_has_audio: "audio" in out.splitlines(), True on any exception
FfprobeHasAudio(outcome, streams) ==
    LET r == RunSubprocess(outcome, streams)
    IN  IF r.raised THEN TRUE ELSE "audio" \in Range(r.out)

\* chosen = next((f for f in formats if f["format_id"] == format_id), None)
\* as the index of the first match, 0 for None
Chosen(fmts, fid) ==
    IF \E i \in DOMAIN fmts : fmts[i].format_id = fid
    THEN CHOOSE i \in DOMAIN fmts :
            /\ fmts[i].format_id = fid
            /\ \A j \in DOMAIN fmts : fmts[j].format_id = fid => i <= j
    ELSE 0

\* truthiness of: chosen and chosen.get("acodec") != "none"
HasAudio(fmts, fid) ==
    /\ Chosen(fmts, fid) # 0
    /\ fmts[Chosen(fmts, fid)].acodec # "none"

\* Python truthiness of an optional string: None and "" are falsy
Truthy(x) == x \notin {None, ""}

\* video_fmt = format_id or "bestvideo+bestaudio/best"
VideoFmt(fid) == IF Truthy(fid) THEN fid ELSE "bestvideo+bestaudio/best"

NeedsCompanionFromMetadata(ha, detected) == ~ha

\* if not has_audio or not ffprobe_has_audio(video_path)
NeedsCompanion(ha, detected) == ~ha \/ ~detected

\* ffmpeg as run by transcode_to_compatible_mp4
\*   "ok"        exit 0 and output_path written
\*   "nooutput"  exit 0 but no output file on disk
\*   "nonzero"   CalledProcessError: returns False
\*   "nolaunch"  FileNotFoundError: not caught by the function
\* both command lines map 0:v:0, so exit 0 needs a video stream in the input
FfmpegOutcomes(streams) ==
    IF "video" \in Range(streams) THEN {"ok", "nooutput", "nonzero", "nolaunch"}
                                  ELSE {"nonzero", "nolaunch"}

\* transcode_to_compatible_mp4: "True", "False", or "raise"
TranscodeToCompatibleMp4(outcome) ==
    CASE outcome \in {"ok", "nooutput"} -> "True"
      [] outcome = "nonzero" -> "False"
      [] OTHER -> "raise"

\* which ffmpeg command line is built
UsesCompanion(ws, apath) == apath # None /\ apath \in ws.files

\* final_path = output_path if ok and os.path.exists(output_path) else video_path
FinalPath(ok, ws, vpath) ==
    IF ok = "True" /\ "final.mp4" \in ws.files THEN "final.mp4" ELSE vpath

ServeArtifactEager(ws, q, final) ==
    [ws |-> RemoveFileLater(ws, final), tasks |-> q]

\* background_tasks.add_task(remove_file_later, final_path); return FileResponse
ServeArtifact(ws, q, final) ==
    [ws |-> ws, tasks |-> Append(q, final)]

\* codec types of the streams of a file in the workspace
StreamsOf(path) ==
    IF path = "final.mp4" THEN <<"video", "audio">>
    ELSE IF path = "audio.m4a" THEN <<"audio">>
    ELSE primary_streams

\* ------------------------------------------------- /fetch_info classifier
\* Bitrates are floats in the source; the model keeps them in tenths of a
\* kbps, so 1286 is 128.6 kbps.  Values sit on both sides of the tier limits
\* and of the rounding points.
AbrValues == {0, 640, 896, 1282, 1284, 1285, 1286, 1697, 2000}

\* tier limits in kbps: abr < 90 is Low, abr < 170 is Medium, else High
LowLimit == 90
MediumLimit == 170

\* a raw descriptor of /fetch_info; "" is a missing (None) codec
InfoDescriptors ==
    {[vcodec |-> "none", acodec |-> "aac", abr |-> a, ext |-> "m4a"] : a \in AbrValues}
    \cup {[vcodec |-> "h264", acodec |-> "aac", abr |-> 0, ext |-> "mp4"],
          [vcodec |-> "h264", acodec |-> "none", abr |-> 0, ext |-> "mp4"],
          [vcodec |-> "none", acodec |-> "", abr |-> 1284, ext |-> "m4a"],
          [vcodec |-> "none", acodec |-> "none", abr |-> 0, ext |-> "bin"],
          [vcodec |-> "", acodec |-> "", abr |-> 0, ext |-> "bin"]}

InfoLists == SeqsUpTo(InfoDescriptors, MaxDescriptors)

\* Python round() of a float given in tenths: nearest integer, ties to even
Round(t) ==
    LET q == t \div 10
        r == t % 10
    IN  IF r < 5 THEN q
        ELSE IF r > 5 THEN q + 1
        ELSE IF q % 2 = 0 THEN q ELSE q + 1

\* if abr < 90 ... elif abr < 170 ... else
Quality(t) ==
    IF t < LowLimit * 10 THEN "Low"
    ELSE IF t < MediumLimit * 10 THEN "Medium"
    ELSE "High"

\* f.get("vcodec") == "none" and f.get("acodec") != "none"
IsAudioOnly(f) == f.vcodec = "none" /\ f.acodec # "none"

\* if not f.get("acodec") and not f.get("vcodec"): continue
NoCodec(f) == f.acodec = "" /\ f.vcodec = ""

AudioEntry(f, i) ==
    [format_id |-> i, ext |-> f.ext, tier |-> Quality(f.abr),
     abr |-> Round(f.abr), vcodec |-> f.vcodec, acodec |-> f.acodec]

VideoEntry(f, i) ==
    [format_id |-> i, ext |-> f.ext, tier |-> "video",
     abr |-> 0, vcodec |-> f.vcodec, acodec |-> f.acodec]

ReplacesFlipped(audio, f) ==
    \/ \A k \in DOMAIN audio : audio[k].tier # Quality(f.abr)
    \/ \E k \in DOMAIN audio :
          audio[k].tier = Quality(f.abr) /\ f.abr < audio[k].abr * 10

\* quality not in audio_formats or abr > audio_formats[quality]["abr"]
Replaces(audio, f) ==
    \/ \A k \in DOMAIN audio : audio[k].tier # Quality(f.abr)
    \/ \E k \in DOMAIN audio :
          audio[k].tier = Quality(f.abr) /\ f.abr > audio[k].abr * 10

\* audio_formats[quality] = {...}: a dict keeps the key's first position
PutAudio(audio, e) ==
    IF \E k \in DOMAIN audio : audio[k].tier = e.tier
    THEN [k \in DOMAIN audio |-> IF audio[k].tier = e.tier THEN e ELSE audio[k]]
    ELSE Append(audio, e)

\* one iteration of: for f in info.get("formats", [])
ClassifyOne(acc, f, i) ==
    IF NoCodec(f) THEN acc
    ELSE IF IsAudioOnly(f)
    THEN IF f.abr <= 0 THEN acc
         ELSE IF Replaces(acc.audio, f)
         THEN [acc EXCEPT !.audio = PutAudio(@, AudioEntry(f, i))]
         ELSE acc
    ELSE IF f.vcodec # "none"
    THEN [acc EXCEPT !.video = Append(@, VideoEntry(f, i))]
    ELSE acc

RECURSIVE Classify(_, _)
\* the loop over the first n descriptors; format_id is the position
Classify(fmts, n) ==
    IF n = 0 THEN [audio |-> <<>>, video |-> <<>>]
    ELSE ClassifyOne(Classify(fmts, n - 1), fmts[n], n)

\* formats_out = list(audio_formats.values()) + video_formats
FormatsOut(fmts) ==
    LET acc == Classify(fmts, Len(fmts))
    IN  acc.audio \o acc.video

\* ------------------------------------------------------------------ state
InitInfo ==
    /\ info_pc = "start"
    /\ in_formats = <<>>
    /\ menu = <<>>

InitDownload ==
    /\ pc = "start"
    /\ format_id = None
    /\ formats = <<>>
    /\ has_audio = FALSE
    /\ video_fmt = None
    /\ workspace = NoWorkspace
    /\ primary_streams = <<>>
    /\ video_path = None
    /\ audio_path = None
    /\ final_path = None
    /\ audio_src = "none"
    /\ probe = "notrun"
    /\ probe_result = "notrun"
    /\ audio_fetch = "notrun"
    /\ ffmpeg = "notrun"
    /\ tasks = <<>>
    /\ response = "none"
    /\ sent = FALSE

Init == InitDownload /\ InitInfo

\* the except branch of download: rmtree, HTTPException(500)
Fail ==
    /\ workspace' = Rmtree(workspace)
    /\ response' = "error"
    /\ pc' = "done"

\* ---------------------------------------------------------------- /download
\* request arrives: tmpdir = tempfile.mkdtemp(...)
Start ==
    /\ pc = "start"
    /\ \E fid \in RequestIds : format_id' = fid
    /\ workspace' = Mkdtemp
    /\ pc' = "probe"
    /\ UNCHANGED <<formats, has_audio, video_fmt, primary_streams, video_path,
                   audio_path, final_path, audio_src, probe, audio_fetch,
                   ffmpeg, tasks, response, sent, probe_result, infovars>>

\* Step 1: extract_info(download=False), outside the try block
ProbeOk ==
    /\ pc = "probe"
    /\ \E fmts \in FormatLists :
          /\ formats' = fmts
          /\ has_audio' = HasAudio(fmts, format_id)
    /\ pc' = "fetch"
    /\ UNCHANGED <<format_id, video_fmt, workspace, primary_streams, video_path,
                   audio_path, final_path, audio_src, probe, audio_fetch,
                   ffmpeg, tasks, response, sent, probe_result, infovars>>

\* extract_info raises: the exception leaves the handler, nothing is cleaned
ProbeRaises ==
    /\ pc = "probe"
    /\ response' = "error"
    /\ pc' = "done"
    /\ UNCHANGED <<format_id, formats, has_audio, video_fmt, workspace,
                   primary_streams, video_path, audio_path, final_path,
                   audio_src, probe, audio_fetch, ffmpeg, tasks, sent, probe_result, infovars>>

\* Step 2: primary download, glob, largest file
FetchPrimaryOk ==
    /\ pc = "fetch"
    /\ video_fmt' = VideoFmt(format_id)
    /\ \E st \in StreamLists, extra \in BOOLEAN :
          /\ primary_streams' = st
          /\ workspace' = IF extra
                          THEN WriteFile(WriteFile(workspace, "primary"), "extra")
                          ELSE WriteFile(workspace, "primary")
    /\ video_path' = "primary"
    /\ pc' = "verify"
    /\ UNCHANGED <<format_id, formats, has_audio, audio_path, final_path,
                   audio_src, probe, audio_fetch, ffmpeg, tasks, response,
                   sent, probe_result, infovars>>

\* ydl.download raises, or leaves no file ("No file downloaded.")
FetchPrimaryFails ==
    /\ pc = "fetch"
    /\ video_fmt' = VideoFmt(format_id)
    /\ Fail
    /\ UNCHANGED <<format_id, formats, has_audio, primary_streams, video_path,
                   audio_path, final_path, audio_src, probe, audio_fetch,
                   ffmpeg, tasks, sent, probe_result, infovars>>

\* the detector is called only when has_audio is truthy (short-circuit or)
Verify ==
    /\ pc = "verify"
    /\ IF ~has_audio
       THEN /\ probe' = "notrun"
            /\ probe_result' = "notrun"
            /\ pc' = IF NeedsCompanion(has_audio, TRUE)
                     THEN "audio" ELSE "transcode"
       ELSE \E o \in ToolOutcomes :
              /\ probe' = o
              /\ probe_result' = IF FfprobeHasAudio(o, primary_streams)
                                 THEN "True" ELSE "False"
              /\ pc' = IF NeedsCompanion(has_audio,
                                         FfprobeHasAudio(o, primary_streams))
                       THEN "audio" ELSE "transcode"
    /\ UNCHANGED <<format_id, formats, has_audio, video_fmt, workspace,
                   primary_streams, video_path, audio_path, final_path,
                   audio_src, audio_fetch, ffmpeg, tasks, response, sent,
                   infovars>>

\* best-effort bestaudio fetch into audio.m4a
FetchCompanion ==
    /\ pc = "audio"
    /\ \E o \in {"ok", "nofile", "raise"} :
          /\ audio_fetch' = o
          /\ workspace' = IF o = "ok" THEN WriteFile(workspace, "audio.m4a")
                                      ELSE workspace
          /\ audio_path' = IF o = "ok" THEN "audio.m4a" ELSE None
    /\ pc' = "transcode"
    /\ UNCHANGED <<format_id, formats, has_audio, video_fmt, primary_streams,
                   video_path, final_path, audio_src, probe, ffmpeg, tasks,
                   response, sent, probe_result, infovars>>

\* Step 3: transcode, choose final_path, schedule cleanup, return the response
TranscodeAndServe ==
    /\ pc = "transcode"
    /\ \E o \in FfmpegOutcomes(primary_streams), partial \in BOOLEAN :
         LET ok == TranscodeToCompatibleMp4(o)
             ws == IF o = "ok" \/ (o = "nonzero" /\ partial)
                   THEN WriteFile(workspace, "final.mp4") ELSE workspace
             fp == FinalPath(ok, ws, video_path)
             sv == ServeArtifact(ws, tasks, fp)
         IN  /\ ffmpeg' = o
             /\ (o # "nonzero" => ~partial)
             /\ audio_src' = IF UsesCompanion(workspace, audio_path)
                             THEN "companion" ELSE "silence"
             /\ IF ok = "raise"
                THEN /\ Fail
                     /\ UNCHANGED <<final_path, tasks>>
                ELSE /\ final_path' = fp
                     /\ workspace' = sv.ws
                     /\ tasks' = sv.tasks
                     /\ response' = "file"
                     /\ pc' = "sending"
    /\ UNCHANGED <<format_id, formats, has_audio, video_fmt, primary_streams,
                   video_path, audio_path, probe, audio_fetch, sent, probe_result, infovars>>

\* the server streams the FileResponse to the caller
SendResponse ==
    /\ pc = "sending"
    /\ sent' = TRUE
    /\ pc' = "background"
    /\ UNCHANGED <<format_id, formats, has_audio, video_fmt, workspace,
                   primary_streams, video_path, audio_path, final_path,
                   audio_src, probe, audio_fetch, ffmpeg, tasks, response,
                   probe_result, infovars>>

\* the background task runs remove_file_later(final_path)
RunBackground ==
    /\ pc = "background"
    /\ tasks # <<>>
    /\ workspace' = RemoveFileLater(workspace, Head(tasks))
    /\ tasks' = Tail(tasks)
    /\ pc' = "done"
    /\ UNCHANGED <<format_id, formats, has_audio, video_fmt, primary_streams,
                   video_path, audio_path, final_path, audio_src, probe,
                   audio_fetch, ffmpeg, response, sent, probe_result, infovars>>

Next ==
    \/ Start
    \/ ProbeOk
    \/ ProbeRaises
    \/ FetchPrimaryOk
    \/ FetchPrimaryFails
    \/ Verify
    \/ FetchCompanion
    \/ TranscodeAndServe
    \/ SendResponse
    \/ RunBackground

Spec == Init /\ [][Next]_vars

\* --------------------------------------------------------------- /fetch_info
\* extract_info succeeds and the menu is returned
FetchInfoOk ==
    /\ info_pc = "start"
    /\ \E fmts \in InfoLists :
          /\ in_formats' = fmts
          /\ menu' = FormatsOut(fmts)
    /\ info_pc' = "done"
    /\ UNCHANGED dlvars

\* extract_info raises: HTTPException(500), no menu
FetchInfoFails ==
    /\ info_pc = "start"
    /\ info_pc' = "error"
    /\ UNCHANGED <<in_formats, menu, dlvars>>

NextInfo ==
    \/ FetchInfoOk
    \/ FetchInfoFails

SpecInfo == Init /\ [][NextInfo]_vars

\* ------------------------------------------------------ request predicates
\* the probe returned a stream list (the handler is past extract_info)
Probed == pc = "fetch" \/ video_fmt # None

\* the chosen identifier matched a descriptor with vcodec "none"
AudioOnlyRequest ==
    /\ Probed
    /\ Chosen(formats, format_id) # 0
    /\ formats[Chosen(formats, format_id)].vcodec = "none"

VideoRequest == Probed /\ ~AudioOnlyRequest

\* an identifier was supplied and no descriptor of the re-probed list has it
LookupFailed ==
    /\ Probed
    /\ format_id # None
    /\ Chosen(formats, format_id) = 0

PrimaryFetched == video_path # None

TranscodeFailed == ffmpeg \in {"nonzero", "nolaunch", "nooutput"}

AfterTranscode == pc \in {"sending", "background", "done"} /\ ffmpeg # "notrun"

\* ------------------------------------------------------------------ claims
\* C1: once a /download request has completed, on any exit path, its
\* workspace directory no longer exists and holds no file.
C1_WorkspaceGoneWhenDone ==
    pc = "done" => (~workspace.exists /\ workspace.files = {})

\* C2: every file served for a video request has an audio stream, whatever
\* the primary file, the companion-audio outcome and the transcode outcome.
C2_ServedFileHasAudio ==
    (VideoRequest /\ response = "file")
        => "audio" \in Range(StreamsOf(final_path))

\* C3: when the primary was fetched and the companion-audio fetch raised or
\* left no file, the request ends with a file response (the output with
\* injected silence, or the raw primary), never with an error response.
C3_CompanionFailureNeverAborts ==
    (VideoRequest /\ PrimaryFetched /\ audio_fetch \in {"raise", "nofile"}
        /\ AfterTranscode)
        => /\ response = "file"
           /\ \/ final_path = "final.mp4" /\ audio_src = "silence"
              \/ final_path = video_path

\* C4: when the lookup of the supplied identifier fails, the chosen stream
\* is treated as audio-less, the primary is fetched with a generic selector
\* and not with the unmatched identifier, and the request ends with a
\* served file.
C4_StaleIdentifierNeverAborts ==
    LookupFailed
        => /\ ~has_audio
           /\ (video_fmt # None => video_fmt # format_id)
           /\ (pc = "done" => response = "file")

\* C5: an audio-only conversion request whose transcode step fails ends in
\* an error response; the un-converted source is never served.
C5_AudioOnlyTranscodeFailureIsError ==
    (AudioOnlyRequest /\ TranscodeFailed /\ AfterTranscode)
        => (response = "error" /\ final_path # video_path)

\* C8: ffprobe_has_audio returns True for every way the probe can fail, and
\* on success returns True exactly when a reported stream type is "audio".
C8_ProbeFailureAssumesAudio ==
    /\ probe \in {"nonzero", "nolaunch", "ioerror"} => probe_result = "True"
    /\ probe = "ok" =>
         (probe_result = "True" <=> "audio" \in Range(primary_streams))
    /\ probe = "ok" => probe_result \in {"True", "False"}

\* C8 witness: the probe failed during a request and the detector said True
C8_Witness ==
    /\ probe \in {"nonzero", "nolaunch", "ioerror"}
    /\ probe_result = "True"
    /\ ~("audio" \in Range(primary_streams))
    /\ pc = "transcode"

\* C9: for a video request whose primary was fetched, any failure of the
\* transcode step yields a failure value, not an exception, and the raw
\* primary file is served.
C9_TranscodeFailureServesPrimary ==
    (VideoRequest /\ PrimaryFetched /\ TranscodeFailed /\ AfterTranscode)
        => (response = "file" /\ final_path = video_path)

\* C10: while the response of a successful request has not been sent, the
\* file being served and its directory have not been deleted.
C10_NoDeletionBeforeHandoff ==
    (response = "file" /\ ~sent)
        => (workspace.exists /\ final_path \in workspace.files)

\* C10 witness: the served file was deleted, after the response was sent
C10_Witness ==
    /\ response = "file"
    /\ sent
    /\ pc = "done"
    /\ final_path \notin workspace.files

\* ------------------------------------------------------- classifier claims
Tiers == {"Low", "Medium", "High"}

\* bitrates (tenths) of the audio-only descriptors of one tier in the input
TierAbrs(fmts, q) ==
    {fmts[i].abr : i \in {j \in DOMAIN fmts :
        IsAudioOnly(fmts[j]) /\ ~NoCodec(fmts[j]) /\ fmts[j].abr > 0
        /\ Quality(fmts[j].abr) = q}}

MaxOf(S) == CHOOSE m \in S : \A x \in S : x <= m

TierEntries(q) == {k \in DOMAIN menu : menu[k].tier = q}

\* C6 as stated: at most one entry per audio tier, and its recorded bitrate
\* is the maximum bitrate of the same-tier audio-only descriptors.
C6_TierEntryRecordsMaxBitrate ==
    info_pc = "done" =>
        \A q \in Tiers :
            /\ Cardinality(TierEntries(q)) <= 1
            /\ \A k \in TierEntries(q) :
                  /\ TierAbrs(in_formats, q) # {}
                  /\ menu[k].abr * 10 = MaxOf(TierAbrs(in_formats, q))

\* C6 amended: at most one entry per audio tier, one exactly when the tier
\* has a descriptor, and its recorded bitrate is the maximum bitrate of the
\* same-tier audio-only descriptors rounded to the nearest integer.
C6_TierEntryRecordsRoundedMax ==
    info_pc = "done" =>
        \A q \in Tiers :
            /\ Cardinality(TierEntries(q)) <= 1
            /\ (TierEntries(q) # {} <=> TierAbrs(in_formats, q) # {})
            /\ \A k \in TierEntries(q) :
                  menu[k].abr = Round(MaxOf(TierAbrs(in_formats, q)))

\* C6 witness: a tier fed by several descriptors with distinct fractional
\* bitrates, the larger one arriving last
C6_Witness ==
    /\ info_pc = "done"
    /\ \E q \in Tiers :
          /\ Cardinality(TierAbrs(in_formats, q)) >= 2
          /\ TierEntries(q) # {}
          /\ MaxOf(TierAbrs(in_formats, q)) % 10 # 0
          /\ in_formats[Len(in_formats)].abr = MaxOf(TierAbrs(in_formats, q))
          /\ IsAudioOnly(in_formats[Len(in_formats)])

\* C7: when the input has an audio-only descriptor with a positive bitrate,
\* the first menu entry is the synthesized MP3-conversion entry and carries
\* the identifier of the highest-bitrate audio tier entry.
C7_Mp3EntryFirst ==
    (info_pc = "done" /\ \E q \in Tiers : TierAbrs(in_formats, q) # {})
        => /\ menu # <<>>
           /\ menu[1].ext = "mp3"
           /\ \E k \in DOMAIN menu :
                 /\ menu[k].tier \in Tiers
                 /\ \A j \in DOMAIN menu :
                       menu[j].tier \in Tiers => menu[j].abr <= menu[k].abr
                 /\ menu[1].format_id = menu[k].format_id

\* ------------------------------------------------------ escalation claims
\* C11: when the matched descriptor says it carries audio but the detector
\* reports no audio in the fetched primary, a companion audio fetch is
\* attempted after the primary fetch and before the transcode step runs.
C11_EscalatesWhenDetectorSaysNoAudio ==
    (has_audio /\ probe_result = "False")
        => /\ PrimaryFetched
           /\ \/ pc = "audio" /\ audio_fetch = "notrun" /\ ffmpeg = "notrun"
              \/ audio_fetch # "notrun"

\* C11 witness: metadata promised audio, the detector found none, the
\* companion fetch was attempted and the transcode step then ran
C11_Witness ==
    /\ has_audio
    /\ probe_result = "False"
    /\ audio_fetch = "ok"
    /\ ffmpeg = "ok"
    /\ audio_src = "companion"

\* C12: when no identifier is supplied the composite selector is fetched,
\* the detector is run on the fetched file, and a companion audio fetch
\* happens only if the detector reported no audio.
C12_CompositeSubjectToPresenceCheck ==
    (format_id = None /\ PrimaryFetched /\ pc # "verify")
        => /\ video_fmt = "bestvideo+bestaudio/best"
           /\ probe # "notrun"
           /\ (audio_fetch # "notrun" => probe_result = "False")

====
